---- MODULE Spec2Model ----
(***************************************************************************)
(* Model of the test driver picoquic_sp.c: main() resolves the selection   *)
(* of tests from the command line, sweeps the test table, reports, and     *)
(* optionally retries the failed tests.                                    *)
(*                                                                         *)
(* The command line is read token by token, as the code does through       *)
(* getopt and argv[optind]: the token at argv[optind] is chosen when it is *)
(* first looked at and remembered in `cur` until optind moves past it.     *)
(* getopt is modelled in its POSIX behaviour (options first, the first     *)
(* non-option token ends option parsing); a permuting getopt yields the    *)
(* same runs as a command line written in that order with "--".            *)
(***************************************************************************)
EXTENDS Integers, Sequences, FiniteSets, TLC

\* Largest number of tokens after argv[0] on the command line (argc - 1).
MaxArgs == 5

\* test_status_t
test_not_run == "test_not_run"
test_excluded == "test_excluded"
test_success == "test_success"
test_failed == "test_failed"

\* The table of the repository (static test_table[]).
SpTable == <<"dtn_basic", "dtn_data", "dtn_silence", "dtn_twenty">>

\* test_table[] is a build-time table and main() is written for any table
\* (it is the picoquic test driver with this repository's tests in it): the
\* model runs the repository's table and tables of other sizes, some holding
\* a name the retry pass refuses to retry.
Registries ==
    { SpTable,
      <<"dtn_basic">>,
      <<"dtn_basic", "stress", "dtn_data">>,
      <<"fuzz", "dtn_basic">> }

\* Names the retry pass refuses to retry (the strcmp chain).
Blocklist ==
    {"stress", "fuzz", "fuzz_initial", "cnx_stress", "cnx_ddos", "eccf_corrupted_fuzz"}

\* Values a test function returns: 0 on success, an error code otherwise.
RetVals == {0, 3}

\* Tokens of the command line.
ArgOptions == {"-x", "-o", "-f", "-F", "-s", "-c", "-d", "-S"}
FlagOptions == {"-n", "-r", "-h"}
\* "-z" is an option getopt does not know; "-1" is a negative number, which
\* getopt reads as the unknown option '1' when it stands where an option may.
OtherDash == {"--", "-z", "-1"}
DashTokens == ArgOptions \cup FlagOptions \cup OtherDash
Numerals == {"0", "1", "2"}
UnknownName == "nosuch"
End == "<end>"          \* argv[optind] with optind >= argc
Unread == "<unread>"    \* argv[optind] has not been looked at yet

VARIABLES
    pc,                 \* position in main()
    test_table,         \* the registry
    test_status,        \* test_status[i], i in 0..nb_tests-1; <<>> when NULL
    ret,
    nb_test_tried,
    nb_test_failed,
    auto_bypass,
    do_fuzz, do_stress, do_cnx_stress, do_cnx_ddos, do_cf_fuzz,
    disable_debug,
    retry_failed_test,
    first_test,
    last_test,
    optind,             \* index of the next argv element
    cur,                \* the token at argv[optind], once looked at
    i,                  \* loop index of the sweep and of the retry pass
    debug_suspended,    \* debug_printf_suspend() / debug_printf_resume()
    out,                \* lines written to stdout, in order
    err,                \* kinds of message written to stderr
    x_named,            \* history: table entries named in a -x group
    list_named,         \* history: table entries named in the trailing list
    has_list,           \* history: a trailing list was present (optind < argc)
    resolved            \* history: the guard of the sweep (ret == 0) passed

vars == <<pc, test_table, test_status, ret, nb_test_tried, nb_test_failed,
          auto_bypass, do_fuzz, do_stress, do_cnx_stress, do_cnx_ddos,
          do_cf_fuzz, disable_debug, retry_failed_test, first_test, last_test,
          optind, cur, i, debug_suspended, out, err, x_named, list_named,
          has_list, resolved>>

parseVars == <<do_fuzz, do_stress, do_cnx_stress, do_cnx_ddos, do_cf_fuzz,
               disable_debug, retry_failed_test, first_test, last_test>>
runVars == <<nb_test_tried, nb_test_failed, i, out, resolved>>
histVars == <<x_named, list_named, has_list>>

----------------------------------------------------------------------------
\* Helpers

nb_tests == Len(test_table)
Ordinals == 0 .. (nb_tests - 1)
Name(k) == test_table[k + 1]

Tokens == DashTokens \cup Numerals \cup {UnknownName}
              \cup {test_table[k] : k \in 1..Len(test_table)}

\* atoi(): the number a numeral denotes, 0 for a token that is no number.
atoi(t) ==
    CASE t = "-1" -> -1
      [] t = "1" -> 1
      [] t = "2" -> 2
      [] OTHER -> 0

\* get_test_number(): the last entry carrying the name, -1 when none does.
get_test_number(test_name) ==
    LET hits == {k \in Ordinals : Name(k) = test_name}
    IN IF hits = {} THEN -1
       ELSE CHOOSE k \in hits : \A j \in hits : j <= k

\* usage() prints the help text to stderr and returns -1.
usage == -1

\* size_t last_test = 10000
default_last_test == 10000

\* The token found at argv[optind]: the one already looked at, else a fresh
\* one, which exists only while the command line has room for it.
TokenAt(t) ==
    IF cur # Unread THEN t = cur
    ELSE t = End \/ (optind <= MaxArgs /\ t \in Tokens)

\* The token found at argv[optind + k] for k > 0, given the token `prev`
\* found just before it.
TokenAfter(prev, k, t) ==
    IF prev = End THEN t = End
    ELSE t = End \/ (optind + k <= MaxArgs /\ t \in Tokens)

\* A line of output.
Line(kind, idx, val, names) ==
    [kind |-> kind, idx |-> idx, val |-> val, names |-> names]

\* Names of the entries whose status is test_failed, in table order.
RECURSIVE FailedNamesFrom(_, _)
FailedNamesFrom(st, k) ==
    IF k >= Len(test_table) THEN <<>>
    ELSE (IF st[k] = test_failed THEN <<test_table[k + 1]>> ELSE <<>>)
             \o FailedNamesFrom(st, k + 1)
\* Mutant of FailedNames: the loop over the table starts at entry 1.
FailedNames_skips_first(st) == FailedNamesFrom(st, 1)

FailedNames(st) == FailedNamesFrom(st, 0)

----------------------------------------------------------------------------
\* Initial state: the locals of main() as declared, before calloc.

Init ==
    /\ pc = "alloc"
    /\ test_table \in Registries
    /\ test_status = <<>>
    /\ ret = 0
    /\ nb_test_tried = 0
    /\ nb_test_failed = 0
    /\ auto_bypass = 0
    /\ do_fuzz = 0 /\ do_stress = 0 /\ do_cnx_stress = 0
    /\ do_cnx_ddos = 0 /\ do_cf_fuzz = 0
    /\ disable_debug = 0
    /\ retry_failed_test = 0
    /\ first_test = 0
    /\ last_test = default_last_test
    /\ optind = 1
    /\ cur = Unread
    /\ i = 0
    /\ debug_suspended = FALSE
    /\ out = <<>>
    /\ err = {}
    /\ x_named = {}
    /\ list_named = {}
    /\ has_list = FALSE
    /\ resolved = FALSE

----------------------------------------------------------------------------
\* Pieces of main() the actions below are built from.

\* Mutant of ExcludeNamed: the -x group leaves the status table alone.
ExcludeNamed_ignored(st, k) == st

\* case 'x': test_status[test_number] = test_excluded
ExcludeNamed(st, k) == [st EXCEPT ![k] = test_excluded]

\* Mutant of AllExcluded: the loop that excludes every entry is left out.
AllExcluded_left_out(st) == st

\* for (i = 0; i < nb_tests; i++) test_status[i] = test_excluded
AllExcluded(st) == [k \in DOMAIN st |-> test_excluded]

\* trailing list: test_status[test_number] = 0
SelectNamed(st, k) == [st EXCEPT ![k] = test_not_run]

\* Mutant of StresserRequested: the corrupt file fuzzer is forgotten.
StresserRequested_no_cf_fuzz ==
    do_stress # 0 \/ do_fuzz # 0 \/ do_cnx_stress # 0 \/ do_cnx_ddos # 0

\* if (do_stress || do_fuzz || do_cnx_stress || do_cnx_ddos || do_cf_fuzz)
StresserRequested ==
    do_stress # 0 \/ do_fuzz # 0 \/ do_cnx_stress # 0 \/ do_cnx_ddos # 0
        \/ do_cf_fuzz # 0

\* Mutant of SweepGuard: the sweep runs whatever ret is.
SweepGuard_always == TRUE

\* if (ret == 0), the guard of the sweep
SweepGuard == ret = 0

\* Mutants of InRange: the first test of the range is left out; the upper
\* end of the range is not looked at.
InRange_skips_first(k) == k > first_test /\ k <= last_test
InRange_no_upper(k) == k >= first_test

\* i >= first_test && i <= last_test
InRange(k) == k >= first_test /\ k <= last_test

\* The sweep: the status an in-range test gets from the value
\* do_one_test() returned.
SweepStatus(r) == IF r # 0 THEN test_failed ELSE test_success

\* Mutant of RetryStatus: a retry that passes writes 0, which is
\* test_not_run, as the status.
RetryStatus_writes_zero(r) == IF r # 0 THEN test_failed ELSE test_not_run

\* Mutant of RetryStatus: a retry that passes does not clear the failure.
RetryStatus_never_cleared(r) == test_failed

\* The retry pass: the status a retried test gets from the value
\* do_one_test() returned.
RetryStatus(r) == IF r # 0 THEN test_failed ELSE test_success

\* Mutant of RetryRequested: -r alone starts the retry pass.
RetryRequested_r_alone == retry_failed_test # 0

\* if (disable_debug && retry_failed_test)
RetryRequested == disable_debug # 0 /\ retry_failed_test # 0

\* Mutant of CannotRetry: "stress" is missing from the chain.
CannotRetry_without_stress(name) == name \in Blocklist \ {"stress"}

\* The strcmp chain of the retry pass.
CannotRetry(name) == name \in Blocklist

\* Mutant of RetryEntryRet: the retry pass does not reset ret.
RetryEntryRet_kept(r) == r

\* ret = 0 at the start of the retry pass, whatever ret was.
RetryEntryRet(r) == 0

\* (nb_test_failed > 1) ? "" : "s"
FailSuffix(n) == IF n > 1 THEN "" ELSE "s"

\* do_one_test(i, stdout) for i < nb_tests and a test function returning r:
\* the lines it prints.
do_one_test_lines(k, r) ==
    << Line("Starting", k, 0, <<Name(k)>>),
       IF r = 0 THEN Line("Success", k, 0, <<>>)
                ELSE Line("Fails", k, r, <<>>) >>

----------------------------------------------------------------------------
\* calloc of the status table

AllocOk ==
    /\ pc = "alloc"
    /\ test_status' = [k \in Ordinals |-> test_not_run]
    /\ pc' = "getopt"
    /\ UNCHANGED <<test_table, ret, auto_bypass, optind, cur, debug_suspended,
                   err>>
    /\ UNCHANGED <<parseVars, runVars, histVars>>

AllocFail ==
    /\ pc = "alloc"
    /\ err' = err \cup {"Could not allocate memory."}
    /\ ret' = -1
    /\ pc' = "done"
    /\ UNCHANGED <<test_table, test_status, auto_bypass, optind, cur,
                   debug_suspended>>
    /\ UNCHANGED <<parseVars, runVars, histVars>>

----------------------------------------------------------------------------
\* while (ret == 0 && (opt = getopt(...)) != -1) switch (opt)

\* What an option leaves alone besides what it sets.
OptFrame ==
    UNCHANGED <<test_table, auto_bypass, debug_suspended, runVars,
                list_named, has_list>>

\* The loop ends because ret != 0.
GetoptStopOnError ==
    /\ pc = "getopt"
    /\ ret # 0
    /\ pc' = "stressers"
    /\ UNCHANGED <<test_status, ret, optind, cur, err, parseVars, x_named>>
    /\ OptFrame

\* getopt returns -1 on the end of argv or on a token that is no option.
GetoptEnd ==
    /\ pc = "getopt"
    /\ ret = 0
    /\ \E t \in (Tokens \cup {End}) \ DashTokens :
          /\ TokenAt(t)
          /\ cur' = t
    /\ pc' = "stressers"
    /\ UNCHANGED <<test_status, ret, optind, err, parseVars, x_named>>
    /\ OptFrame

\* getopt returns -1 on "--" and steps over it.
GetoptDashDash ==
    /\ pc = "getopt"
    /\ ret = 0
    /\ TokenAt("--")
    /\ optind' = optind + 1
    /\ cur' = Unread
    /\ pc' = "stressers"
    /\ UNCHANGED <<test_status, ret, err, parseVars, x_named>>
    /\ OptFrame

\* default: an option getopt does not know.
OptUnknown ==
    /\ pc = "getopt"
    /\ ret = 0
    /\ \E t \in {"-z", "-1"} : TokenAt(t)
    /\ optind' = optind + 1
    /\ cur' = Unread
    /\ ret' = usage
    /\ err' = err \cup {"invalid option", "usage"}
    /\ UNCHANGED <<pc, test_status, parseVars, x_named>>
    /\ OptFrame

\* default: an option that takes an argument is the last token.
OptMissingArg ==
    /\ pc = "getopt"
    /\ ret = 0
    /\ \E t \in ArgOptions : TokenAt(t) /\ TokenAfter(t, 1, End)
    /\ optind' = optind + 1
    /\ cur' = End
    /\ ret' = usage
    /\ err' = err \cup {"option requires an argument", "usage"}
    /\ UNCHANGED <<pc, test_status, parseVars, x_named>>
    /\ OptFrame

\* case 'x': optind--, so that the group starts at the option's argument.
Opt_x ==
    /\ pc = "getopt"
    /\ ret = 0
    /\ TokenAt("-x")
    /\ \E tn \in Tokens :
          /\ TokenAfter("-x", 1, tn)
          /\ cur' = tn
    /\ optind' = optind + 1
    /\ pc' = "xloop"
    /\ UNCHANGED <<test_status, ret, err, parseVars, x_named>>
    /\ OptFrame

\* case 'x': while (optind < argc) ... if (tn[0] == '-') break;
XLoopBreak ==
    /\ pc = "xloop"
    /\ \E tn \in DashTokens \cup {End} :
          /\ TokenAt(tn)
          /\ cur' = tn
    /\ pc' = "getopt"
    /\ UNCHANGED <<test_status, ret, optind, err, parseVars, x_named>>
    /\ OptFrame

\* case 'x': one name of the group.
XLoopName ==
    /\ pc = "xloop"
    /\ \E tn \in Tokens \ DashTokens :
          /\ TokenAt(tn)
          /\ LET test_number == get_test_number(tn)
             IN IF test_number < 0
                THEN /\ err' = err \cup {"Incorrect test name", "usage"}
                     /\ ret' = usage
                     /\ UNCHANGED <<test_status, x_named>>
                ELSE /\ test_status' = ExcludeNamed(test_status, test_number)
                     /\ x_named' = x_named \cup {test_number}
                     /\ UNCHANGED <<ret, err>>
    /\ optind' = optind + 1
    /\ cur' = Unread
    /\ UNCHANGED <<pc, parseVars>>
    /\ OptFrame

\* case 'o'
Opt_o ==
    /\ pc = "getopt"
    /\ ret = 0
    /\ TokenAt("-o")
    /\ \E optarg \in Tokens, t2 \in Tokens \cup {End} :
          /\ TokenAfter("-o", 1, optarg)
          /\ TokenAfter(optarg, 2, t2)
          /\ IF t2 = End
             THEN \* optind + 1 > argc
                  /\ err' = err \cup {"option requires more arguments", "usage"}
                  /\ ret' = usage
                  /\ optind' = optind + 2
                  /\ cur' = End
                  /\ UNCHANGED <<first_test, last_test>>
             ELSE /\ optind' = optind + 3
                  /\ cur' = Unread
                  /\ IF atoi(optarg) < 0 \/ atoi(t2) < 0
                     THEN /\ err' = err \cup {"Incorrect first/last", "usage"}
                          /\ ret' = usage
                          /\ UNCHANGED <<first_test, last_test>>
                     ELSE /\ first_test' = atoi(optarg)
                          /\ last_test' = atoi(t2)
                          /\ UNCHANGED <<ret, err>>
    /\ UNCHANGED <<pc, test_status, do_fuzz, do_stress, do_cnx_stress,
                   do_cnx_ddos, do_cf_fuzz, disable_debug, retry_failed_test,
                   x_named>>
    /\ OptFrame

\* case 'f', case 'F', case 's': the flag is set, then the count is checked.
Opt_fFs ==
    /\ pc = "getopt"
    /\ ret = 0
    /\ \E t \in {"-f", "-F", "-s"}, optarg \in Tokens :
          /\ TokenAt(t)
          /\ TokenAfter(t, 1, optarg)
          /\ do_fuzz' = (IF t = "-f" THEN 1 ELSE do_fuzz)
          /\ do_cf_fuzz' = (IF t = "-F" THEN 1 ELSE do_cf_fuzz)
          /\ do_stress' = (IF t = "-s" THEN 1 ELSE do_stress)
          /\ IF atoi(optarg) <= 0
             THEN /\ err' = err \cup {"Incorrect count", "usage"}
                  /\ ret' = usage
             ELSE UNCHANGED <<ret, err>>
    /\ optind' = optind + 2
    /\ cur' = Unread
    /\ UNCHANGED <<pc, test_status, do_cnx_stress, do_cnx_ddos, disable_debug,
                   retry_failed_test, first_test, last_test, x_named>>
    /\ OptFrame

\* case 'c' with both of its arguments.
Opt_c ==
    /\ pc = "getopt"
    /\ ret = 0
    /\ TokenAt("-c")
    /\ \E optarg \in Tokens, t2 \in Tokens :
          /\ TokenAfter("-c", 1, optarg)
          /\ TokenAfter(optarg, 2, t2)
          /\ IF atoi(optarg) <= 0 \/ atoi(t2) < 0
             THEN /\ err' = err \cup {"Incorrect cnx stress", "usage"}
                  /\ ret' = usage
             ELSE UNCHANGED <<ret, err>>
    /\ do_cnx_stress' = 1
    /\ optind' = optind + 3
    /\ cur' = Unread
    /\ UNCHANGED <<pc, test_status, do_fuzz, do_stress, do_cnx_ddos,
                   do_cf_fuzz, disable_debug, retry_failed_test, first_test,
                   last_test, x_named>>
    /\ OptFrame

\* case 'c' without its second argument: ret = usage(), and then
\* atoi(argv[optind++]) reads argv[argc], a null pointer. The behaviour is
\* undefined: the process dies on the null pointer, or atoi returns some
\* number and the run goes on with ret = -1 (each later branch of the case
\* can only set ret to usage() again).
Opt_c_short ==
    /\ pc = "getopt"
    /\ ret = 0
    /\ TokenAt("-c")
    /\ \E optarg \in Tokens :
          /\ TokenAfter("-c", 1, optarg)
          /\ TokenAfter(optarg, 2, End)
    /\ err' = err \cup {"option requires more arguments", "usage"}
    /\ ret' = usage
    /\ do_cnx_stress' = 1
    /\ optind' = optind + 3
    /\ cur' = End
    /\ \/ pc' = "crashed"
       \/ pc' = pc
    /\ UNCHANGED <<test_status, do_fuzz, do_stress, do_cnx_ddos, do_cf_fuzz,
                   disable_debug, retry_failed_test, first_test, last_test,
                   x_named>>
    /\ OptFrame

\* case 'd' with its three arguments. (The branch on cnx_stress_nb_cnx < 0
\* is dead: ret == 0 here, so an earlier -c had a count >= 0.)
Opt_d ==
    /\ pc = "getopt"
    /\ ret = 0
    /\ TokenAt("-d")
    /\ \E optarg \in Tokens, t2 \in Tokens, t3 \in Tokens :
          /\ TokenAfter("-d", 1, optarg)
          /\ TokenAfter(optarg, 2, t2)
          /\ TokenAfter(t2, 3, t3)
          /\ IF atoi(optarg) <= 0
             THEN /\ err' = err \cup {"Incorrect cnx ddos packets", "usage"}
                  /\ ret' = usage
             ELSE UNCHANGED <<ret, err>>
    /\ do_cnx_ddos' = 1
    /\ optind' = optind + 4
    /\ cur' = Unread
    /\ UNCHANGED <<pc, test_status, do_fuzz, do_stress, do_cnx_stress,
                   do_cf_fuzz, disable_debug, retry_failed_test, first_test,
                   last_test, x_named>>
    /\ OptFrame

\* case 'd' with two arguments: optind + 2 > argc, ret = usage(); the
\* interval is read and cnx_ddos_dir = argv[argc], the null pointer that ends
\* argv, is stored and never used.
Opt_d_short ==
    /\ pc = "getopt"
    /\ ret = 0
    /\ TokenAt("-d")
    /\ \E optarg \in Tokens, t2 \in Tokens :
          /\ TokenAfter("-d", 1, optarg)
          /\ TokenAfter(optarg, 2, t2)
          /\ TokenAfter(t2, 3, End)
    /\ err' = err \cup {"option requires more arguments", "usage"}
    /\ ret' = usage
    /\ do_cnx_ddos' = 1
    /\ optind' = optind + 4
    /\ cur' = End
    /\ UNCHANGED <<pc, test_status, do_fuzz, do_stress, do_cnx_stress,
                   do_cf_fuzz, disable_debug, retry_failed_test, first_test,
                   last_test, x_named>>
    /\ OptFrame

\* case 'd' with one argument: ret = usage(), then atoi(argv[argc]) on a
\* null pointer and a read of argv[argc + 1]: undefined behaviour, the
\* process dies or goes on with ret = -1.
Opt_d_shorter ==
    /\ pc = "getopt"
    /\ ret = 0
    /\ TokenAt("-d")
    /\ \E optarg \in Tokens :
          /\ TokenAfter("-d", 1, optarg)
          /\ TokenAfter(optarg, 2, End)
    /\ err' = err \cup {"option requires more arguments", "usage"}
    /\ ret' = usage
    /\ do_cnx_ddos' = 1
    /\ optind' = optind + 4
    /\ cur' = End
    /\ \/ pc' = "crashed"
       \/ pc' = pc
    /\ UNCHANGED <<test_status, do_fuzz, do_stress, do_cnx_stress, do_cf_fuzz,
                   disable_debug, retry_failed_test, first_test, last_test,
                   x_named>>
    /\ OptFrame

\* case 'S': picoquic_set_solution_dir(optarg)
Opt_S ==
    /\ pc = "getopt"
    /\ ret = 0
    /\ TokenAt("-S")
    /\ \E optarg \in Tokens : TokenAfter("-S", 1, optarg)
    /\ optind' = optind + 2
    /\ cur' = Unread
    /\ UNCHANGED <<pc, test_status, ret, err, parseVars, x_named>>
    /\ OptFrame

\* case 'n'
Opt_n ==
    /\ pc = "getopt"
    /\ ret = 0
    /\ TokenAt("-n")
    /\ disable_debug' = 1
    /\ optind' = optind + 1
    /\ cur' = Unread
    /\ UNCHANGED <<pc, test_status, ret, err, do_fuzz, do_stress,
                   do_cnx_stress, do_cnx_ddos, do_cf_fuzz, retry_failed_test,
                   first_test, last_test, x_named>>
    /\ OptFrame

\* case 'r'
Opt_r ==
    /\ pc = "getopt"
    /\ ret = 0
    /\ TokenAt("-r")
    /\ retry_failed_test' = 1
    /\ optind' = optind + 1
    /\ cur' = Unread
    /\ UNCHANGED <<pc, test_status, ret, err, do_fuzz, do_stress,
                   do_cnx_stress, do_cnx_ddos, do_cf_fuzz, disable_debug,
                   first_test, last_test, x_named>>
    /\ OptFrame

\* case 'h': usage(argv[0]); exit(0). ret is 0 here, as inside the loop.
Opt_h ==
    /\ pc = "getopt"
    /\ ret = 0
    /\ TokenAt("-h")
    /\ err' = err \cup {"usage"}
    /\ optind' = optind + 1
    /\ cur' = Unread
    /\ pc' = "done"
    /\ UNCHANGED <<test_status, ret, parseVars, x_named>>
    /\ OptFrame

----------------------------------------------------------------------------
\* After the option loop

\* If one of the stressers was specified, do not run any other test by default
Stressers ==
    /\ pc = "stressers"
    /\ IF StresserRequested
       THEN /\ auto_bypass' = 1
            /\ test_status' = AllExcluded(test_status)
       ELSE UNCHANGED <<auto_bypass, test_status>>
    /\ pc' = "list"
    /\ UNCHANGED <<test_table, ret, optind, cur, debug_suspended, err>>
    /\ UNCHANGED <<parseVars, runVars, histVars>>

\* if (optind < argc) fails: no trailing list.
NoList ==
    /\ pc = "list"
    /\ TokenAt(End)
    /\ cur' = End
    /\ pc' = "debug"
    /\ UNCHANGED <<test_table, test_status, ret, auto_bypass, optind,
                   debug_suspended, err>>
    /\ UNCHANGED <<parseVars, runVars, histVars>>

\* if (optind < argc): the argument list ends with a list of selected
\* tests, mark all other tests as excluded.
ListStart ==
    /\ pc = "list"
    /\ \E t \in Tokens :
          /\ TokenAt(t)
          /\ cur' = t
    /\ auto_bypass' = 1
    /\ test_status' = AllExcluded(test_status)
    /\ has_list' = TRUE
    /\ pc' = "listloop"
    /\ UNCHANGED <<test_table, ret, optind, debug_suspended, err, x_named,
                   list_named>>
    /\ UNCHANGED <<parseVars, runVars>>

\* while (optind < argc): one name of the trailing list.
ListName ==
    /\ pc = "listloop"
    /\ \E t \in Tokens :
          /\ TokenAt(t)
          /\ LET test_number == get_test_number(t)
             IN IF test_number < 0
                THEN /\ err' = err \cup {"Incorrect test name", "usage"}
                     /\ ret' = usage
                     /\ UNCHANGED <<test_status, list_named>>
                ELSE /\ test_status' = SelectNamed(test_status, test_number)
                     /\ list_named' = list_named \cup {test_number}
                     /\ UNCHANGED <<ret, err>>
    /\ optind' = optind + 1
    /\ cur' = Unread
    /\ UNCHANGED <<pc, test_table, auto_bypass, debug_suspended, x_named,
                   has_list>>
    /\ UNCHANGED <<parseVars, runVars>>

\* while (optind < argc) fails: the list is over.
ListEnd ==
    /\ pc = "listloop"
    /\ TokenAt(End)
    /\ cur' = End
    /\ pc' = "debug"
    /\ UNCHANGED <<test_table, test_status, ret, auto_bypass, optind,
                   debug_suspended, err>>
    /\ UNCHANGED <<parseVars, runVars, histVars>>

\* if (disable_debug) debug_printf_suspend(); else debug_printf_resume();
\* then the guard of the sweep, if (ret == 0).
SetDebug ==
    /\ pc = "debug"
    /\ debug_suspended' = (disable_debug # 0)
    /\ IF SweepGuard
       THEN /\ pc' = "sweep"
            /\ resolved' = TRUE
       ELSE /\ pc' = "report"
            /\ UNCHANGED resolved
    /\ i' = 0
    /\ UNCHANGED <<test_table, test_status, ret, auto_bypass, optind, cur,
                   err, nb_test_tried, nb_test_failed, out>>
    /\ UNCHANGED <<parseVars, histVars>>

----------------------------------------------------------------------------
\* Execute now all the tests that were not excluded

SweepFrame ==
    UNCHANGED <<test_table, auto_bypass, optind, cur, debug_suspended, err,
                resolved, parseVars, histVars>>

\* test_status[i] == test_not_run and i in range: do_one_test(i, stdout)
\* runs the test function, which returns r.
SweepRun ==
    /\ pc = "sweep"
    /\ i < nb_tests
    /\ test_status[i] = test_not_run
    /\ InRange(i)
    /\ \E r \in RetVals :
          /\ out' = out \o do_one_test_lines(i, r)
          /\ test_status' = [test_status EXCEPT ![i] = SweepStatus(r)]
          /\ IF r # 0
             THEN /\ nb_test_failed' = nb_test_failed + 1
                  /\ ret' = -1
             ELSE UNCHANGED <<nb_test_failed, ret>>
    /\ nb_test_tried' = nb_test_tried + 1
    /\ i' = i + 1
    /\ UNCHANGED pc
    /\ SweepFrame

\* test_status[i] == test_not_run and i out of range: the && stops before
\* do_one_test, and the else branch marks the entry.
SweepOutOfRange ==
    /\ pc = "sweep"
    /\ i < nb_tests
    /\ test_status[i] = test_not_run
    /\ ~InRange(i)
    /\ test_status' = [test_status EXCEPT ![i] = test_success]
    /\ nb_test_tried' = nb_test_tried + 1
    /\ i' = i + 1
    /\ UNCHANGED <<pc, out, nb_test_failed, ret>>
    /\ SweepFrame

\* Mutant of SweepBypass: the notice does not look at auto_bypass.
SweepBypass_always_notices ==
    /\ pc = "sweep"
    /\ i < nb_tests
    /\ test_status[i] # test_not_run
    /\ IF test_status[i] = test_excluded
       THEN out' = Append(out, Line("Bypassed", i, 0, <<Name(i)>>))
       ELSE UNCHANGED out
    /\ i' = i + 1
    /\ UNCHANGED <<pc, test_status, nb_test_tried, nb_test_failed, ret>>
    /\ SweepFrame

\* test_status[i] != test_not_run: a notice unless auto_bypass.
SweepBypass ==
    /\ pc = "sweep"
    /\ i < nb_tests
    /\ test_status[i] # test_not_run
    /\ IF auto_bypass = 0 /\ test_status[i] = test_excluded
       THEN out' = Append(out, Line("Bypassed", i, 0, <<Name(i)>>))
       ELSE UNCHANGED out
    /\ i' = i + 1
    /\ UNCHANGED <<pc, test_status, nb_test_tried, nb_test_failed, ret>>
    /\ SweepFrame

\* i == nb_tests: the sweep is over.
SweepEnd ==
    /\ pc = "sweep"
    /\ i >= nb_tests
    /\ pc' = "report"
    /\ UNCHANGED <<test_status, nb_test_tried, nb_test_failed, ret, i, out>>
    /\ SweepFrame

----------------------------------------------------------------------------
\* Report status, and if specified retry

\* Mutant of ReportLines: the aggregate line is printed only when a test
\* failed.
ReportLines_aggregate_on_failure ==
    (IF nb_test_tried > 1 /\ nb_test_failed > 0
     THEN <<Line("Tried", nb_test_tried, nb_test_failed,
                 <<FailSuffix(nb_test_failed)>>)>>
     ELSE <<>>)
    \o (IF nb_test_failed > 0
        THEN <<Line("Failed test(s)", 0, 0, FailedNames(test_status))>>
        ELSE <<>>)

\* The lines of the report: the aggregate line when more than one test was
\* tried, the list of failed tests when one failed.
ReportLines ==
    (IF nb_test_tried > 1
     THEN <<Line("Tried", nb_test_tried, nb_test_failed,
                 <<FailSuffix(nb_test_failed)>>)>>
     ELSE <<>>)
    \o (IF nb_test_failed > 0
        THEN <<Line("Failed test(s)", 0, 0, FailedNames(test_status))>>
        ELSE <<>>)

\* Mutant of Report: the retry pass starts before the report is written.
Report_retries_first ==
    /\ pc = "report"
    /\ IF nb_test_failed > 0 /\ RetryRequested
       THEN /\ debug_suspended' = FALSE
            /\ ret' = RetryEntryRet(ret)
            /\ i' = 0
            /\ pc' = "retry"
            /\ UNCHANGED out
       ELSE /\ pc' = "done"
            /\ out' = out \o ReportLines
            /\ UNCHANGED <<debug_suspended, ret, i>>
    /\ UNCHANGED <<test_table, test_status, auto_bypass, optind, cur, err,
                   nb_test_tried, nb_test_failed, resolved>>
    /\ UNCHANGED <<parseVars, histVars>>

Report ==
    /\ pc = "report"
    /\ out' = out \o ReportLines
    /\ IF nb_test_failed > 0 /\ RetryRequested
       THEN /\ debug_suspended' = FALSE
            /\ ret' = RetryEntryRet(ret)
            /\ i' = 0
            /\ pc' = "retry"
       ELSE /\ pc' = "done"
            /\ UNCHANGED <<debug_suspended, ret, i>>
    /\ UNCHANGED <<test_table, test_status, auto_bypass, optind, cur, err,
                   nb_test_tried, nb_test_failed, resolved>>
    /\ UNCHANGED <<parseVars, histVars>>

RetryFrame ==
    UNCHANGED <<test_table, auto_bypass, optind, cur, debug_suspended, err,
                nb_test_tried, nb_test_failed, resolved, parseVars, histVars>>

\* test_status[i] != test_failed: nothing to retry.
RetrySkip ==
    /\ pc = "retry"
    /\ i < nb_tests
    /\ test_status[i] # test_failed
    /\ i' = i + 1
    /\ UNCHANGED <<pc, test_status, ret, out>>
    /\ RetryFrame

\* A failed test whose name is in the strcmp chain.
RetryRefuse ==
    /\ pc = "retry"
    /\ i < nb_tests
    /\ test_status[i] = test_failed
    /\ CannotRetry(Name(i))
    /\ out' = Append(out, Line("Cannot retry", i, 0, <<Name(i)>>))
    /\ ret' = -1
    /\ i' = i + 1
    /\ UNCHANGED <<pc, test_status>>
    /\ RetryFrame

\* Mutant of RetryRun: a retry that passes takes the failure off the count.
RetryRun_uncounts ==
    /\ pc = "retry"
    /\ i < nb_tests
    /\ test_status[i] = test_failed
    /\ ~CannotRetry(Name(i))
    /\ \E r \in RetVals :
          /\ out' = out \o <<Line("Retrying", i, 0, <<Name(i)>>)>>
                        \o do_one_test_lines(i, r)
          /\ test_status' = [test_status EXCEPT ![i] = RetryStatus(r)]
          /\ IF r # 0
             THEN UNCHANGED nb_test_failed /\ ret' = -1
             ELSE nb_test_failed' = nb_test_failed - 1 /\ UNCHANGED ret
    /\ i' = i + 1
    /\ UNCHANGED <<pc, test_table, auto_bypass, optind, cur, debug_suspended,
                   err, nb_test_tried, resolved, parseVars, histVars>>

\* A failed test that is run again; its function returns r.
RetryRun ==
    /\ pc = "retry"
    /\ i < nb_tests
    /\ test_status[i] = test_failed
    /\ ~CannotRetry(Name(i))
    /\ \E r \in RetVals :
          /\ out' = out \o <<Line("Retrying", i, 0, <<Name(i)>>)>>
                        \o do_one_test_lines(i, r)
          /\ test_status' = [test_status EXCEPT ![i] = RetryStatus(r)]
          /\ IF r # 0
             THEN ret' = -1
             ELSE UNCHANGED ret
    /\ i' = i + 1
    /\ UNCHANGED pc
    /\ RetryFrame

\* After the retry pass: the all-clear or the list of tests still failing.
RetryReport ==
    /\ pc = "retry"
    /\ i >= nb_tests
    /\ IF ret = 0
       THEN out' = Append(out, Line("All tests pass after second try.", 0, 0,
                                    <<>>))
       ELSE out' = Append(out, Line("Still failing", 0, 0,
                                    FailedNames(test_status)))
    /\ pc' = "done"
    /\ UNCHANGED <<test_status, ret, i>>
    /\ RetryFrame

----------------------------------------------------------------------------

Next ==
    \/ AllocOk \/ AllocFail
    \/ GetoptStopOnError \/ GetoptEnd \/ GetoptDashDash
    \/ OptUnknown \/ OptMissingArg
    \/ Opt_x \/ XLoopBreak \/ XLoopName
    \/ Opt_o \/ Opt_fFs
    \/ Opt_c \/ Opt_c_short \/ Opt_d \/ Opt_d_short \/ Opt_d_shorter
    \/ Opt_S \/ Opt_n \/ Opt_r \/ Opt_h
    \/ Stressers \/ NoList \/ ListStart \/ ListName \/ ListEnd
    \/ SetDebug
    \/ SweepRun \/ SweepOutOfRange \/ SweepBypass \/ SweepEnd
    \/ Report
    \/ RetrySkip \/ RetryRefuse \/ RetryRun \/ RetryReport

Spec == Init /\ [][Next]_vars

\* main() has returned (or exit() was called); ret is the exit status.
Done == pc = "done"

----------------------------------------------------------------------------
\* What a run did, read from its output.

\* Number of lines of a kind written for entry k.
Count(kind, k) ==
    Cardinality({n \in 1..Len(out) : out[n].kind = kind /\ out[n].idx = k})

\* Number of times the test function of entry k was called: do_one_test
\* writes one "Starting" line per call.
Invocations(k) == Count("Starting", k)

\* Number of those calls made by the retry pass, which writes "Retrying"
\* before each.
Retries(k) == Count("Retrying", k)

SweepInvocations(k) == Invocations(k) - Retries(k)

\* The ordinals in the order their tests were started.
StartOrder ==
    LET starts == SelectSeq(out, LAMBDA l : l.kind = "Starting")
    IN [n \in 1..Len(starts) |-> starts[n].idx]

\* The values the test function of entry k returned, in order.
Returned(k) ==
    LET res == SelectSeq(out, LAMBDA l : l.idx = k
                                  /\ l.kind \in {"Success", "Fails"})
    IN [n \in 1..Len(res) |-> res[n].val]

\* Argument resolution failed: a message other than the help text itself
\* went to stderr (a usage error, or the allocation failure).
ResolutionFailed == err \ {"usage"} # {}

\* The command line holds no argument at all (argc == 1).
NoArguments == optind = 1 /\ cur = End

SweepOver == pc \in {"report", "retry", "done"}

DefaultRange == first_test = 0 /\ last_test = default_last_test

AlternateMode ==
    do_stress = 1 \/ do_fuzz = 1 \/ do_cf_fuzz = 1 \/ do_cnx_stress = 1
        \/ do_cnx_ddos = 1

RetryFlagsGiven == disable_debug = 1 /\ retry_failed_test = 1

----------------------------------------------------------------------------
\* C1: in a run that passes argument resolution (no usage error, no
\* allocation failure) the exit status is 0 if and only if every test that
\* was invoked has final status Success.
C1_ExitZeroIffAllInvokedSucceed ==
    (Done /\ ~ResolutionFailed) =>
        ((ret = 0) <=>
            \A k \in Ordinals :
                Invocations(k) > 0 => test_status[k] = test_success)

\* A run ends with status 0 after a test failed in the sweep and passed when
\* retried.
C1_Witness ==
    /\ Done /\ resolved /\ ret = 0
    /\ \E k \in Ordinals :
          /\ Returned(k) = <<3, 0>>
          /\ test_status[k] = test_success

\* C2: a run with no flags invokes every test of the table exactly once,
\* in ascending ordinal order, whatever each test returns, and after the
\* sweep every entry is Success or Failed. (Runs whose calloc succeeded.)
C2_NoFlagsRunsAllInOrder ==
    (NoArguments /\ resolved) =>
        /\ pc = "sweep" => StartOrder = [n \in 1..i |-> n - 1]
        /\ SweepOver =>
              /\ StartOrder = [n \in 1..nb_tests |-> n - 1]
              /\ \A k \in Ordinals :
                    test_status[k] \in {test_success, test_failed}

\* The four tests of the repository's table were run with no flags, the
\* second one failing and the later ones passing.
C2_Witness ==
    /\ Done /\ NoArguments /\ resolved
    /\ nb_tests = 4
    /\ Returned(1) = <<3>> /\ Returned(2) = <<0>> /\ Returned(3) = <<0>>

\* C3: when the only selection input is -x groups naming the set E of
\* entries (no trailing list, no alternate mode, default range, argument
\* resolution passed), every entry of E is Excluded and never invoked, and
\* every other entry is invoked in the sweep.
C3_ExcludedNotRunOthersRun ==
    (resolved /\ ~has_list /\ ~AlternateMode /\ DefaultRange) =>
        /\ \A k \in x_named :
              test_status[k] = test_excluded /\ Invocations(k) = 0
        /\ SweepOver =>
              \A k \in Ordinals \ x_named : SweepInvocations(k) = 1

\* A run with -x groups naming some but not all entries has ended.
C3_Witness ==
    /\ Done /\ resolved /\ ~has_list /\ ~AlternateMode /\ DefaultRange
    /\ Cardinality(x_named) = 2
    /\ nb_tests = 4

\* C4: a test whose ordinal is outside the range given with -o is never
\* invoked, in the sweep or in the retry pass.
C4_OutOfRangeNeverInvoked ==
    \A k \in Ordinals :
        Invocations(k) > 0 => (first_test <= k /\ k <= last_test)

\* A run with -o 1 2, -n and -r on the four-entry table has ended: entries 0
\* and 3 were not invoked, and a failed test was retried.
C4_Witness ==
    /\ Done /\ resolved
    /\ nb_tests = 4 /\ first_test = 1 /\ last_test = 2
    /\ Invocations(0) = 0 /\ Invocations(3) = 0
    /\ \E k \in Ordinals : Retries(k) = 1

\* C5, as stated: whenever an alternate mode (-s, -f, -F, -c, -d) is
\* requested, every entry is Excluded when the sweep starts and no test is
\* ever invoked, whatever -x groups or trailing names are given.
C5_AlternateModeRunsNothing ==
    AlternateMode =>
        /\ (pc = "sweep" /\ i = 0) =>
              \A k \in Ordinals : test_status[k] = test_excluded
        /\ \A k \in Ordinals : Invocations(k) = 0

\* C5, amended: whenever an alternate mode is requested, every entry that
\* the trailing list does not name is Excluded when the sweep starts and is
\* never invoked, whatever -x groups are given; the entries the trailing
\* list names are NotRun when the sweep starts, and those in range are
\* invoked in the sweep.
C5_AlternateModeRunsOnlyListed ==
    AlternateMode =>
        /\ (pc = "sweep" /\ i = 0) =>
              \A k \in Ordinals :
                  test_status[k] = (IF k \in list_named THEN test_not_run
                                                        ELSE test_excluded)
        /\ \A k \in Ordinals \ list_named : Invocations(k) = 0
        /\ (resolved /\ SweepOver) =>
              \A k \in list_named :
                  (first_test <= k /\ k <= last_test) =>
                      SweepInvocations(k) = 1

\* A run with a -x group, an alternate mode and a trailing list has ended:
\* the listed test was invoked, the others were not.
C5_Witness ==
    /\ Done /\ resolved /\ AlternateMode
    /\ x_named # {}
    /\ \E k \in list_named : Invocations(k) = 1
    /\ \E k \in Ordinals \ list_named :
          test_status[k] = test_excluded /\ Invocations(k) = 0

\* C6: with a trailing list L of registered names (no alternate mode,
\* default range, argument resolution passed) the tests invoked in the
\* sweep are exactly those of L; an entry not in L is Excluded and never
\* invoked; an entry named in a -x group and in L is invoked.
C6_ListRunsExactlyListed ==
    (resolved /\ has_list /\ ~AlternateMode /\ DefaultRange) =>
        /\ \A k \in Ordinals \ list_named :
              test_status[k] = test_excluded /\ Invocations(k) = 0
        /\ SweepOver =>
              \A k \in list_named : SweepInvocations(k) = 1

\* A run has ended whose trailing list named an entry also named in a -x
\* group, and left another entry out.
C6_Witness ==
    /\ Done /\ resolved /\ has_list /\ ~AlternateMode /\ DefaultRange
    /\ \E k \in x_named \cap list_named : SweepInvocations(k) = 1
    /\ \E k \in Ordinals \ list_named : TRUE

\* C7: with -n and -r, an entry whose name is in the blocklist and whose
\* test failed in the sweep is never invoked again, stays Failed, and the
\* exit status is nonzero whatever the retried tests return.
C7_BlocklistedNeverRetried ==
    RetryFlagsGiven =>
        \A k \in Ordinals :
            (Name(k) \in Blocklist /\ Len(Returned(k)) > 0
                /\ Returned(k)[1] # 0) =>
                    /\ Invocations(k) = 1
                    /\ Retries(k) = 0
                    /\ test_status[k] = test_failed
                    /\ Done => ret # 0

\* A run with -n and -r has ended in which "stress" failed and was refused
\* a retry while another failed test was retried and passed.
C7_Witness ==
    /\ Done /\ RetryFlagsGiven
    /\ \E k \in Ordinals :
          /\ Name(k) = "stress"
          /\ Returned(k) = <<3>>
          /\ Count("Cannot retry", k) = 1
    /\ \E j \in Ordinals : Returned(j) = <<3, 0>>

\* The last line written to stdout, if any.
LastLine == out[Len(out)]

\* The retry pass has run to its end.
RetryPassOver ==
    Done /\ resolved /\ nb_test_failed > 0 /\ RetryFlagsGiven

\* C8: with -n and -r, a failed test that is not in the blocklist and whose
\* retry returns 0 becomes Success; once the retry pass is over, if no entry
\* is Failed the all-clear line is printed and the exit status is 0,
\* otherwise the still-failing list is printed and the exit status is
\* nonzero.
C8_RetryClearsFailure ==
    /\ \A k \in Ordinals :
          (Retries(k) = 1 /\ Len(Returned(k)) = 2 /\ Returned(k)[2] = 0) =>
              test_status[k] = test_success
    /\ RetryPassOver =>
          IF \A k \in Ordinals : test_status[k] # test_failed
          THEN /\ LastLine.kind = "All tests pass after second try."
               /\ ret = 0
          ELSE /\ LastLine.kind = "Still failing"
               /\ LastLine.names = FailedNames(test_status)
               /\ LastLine.names # <<>>
               /\ ret # 0

\* A run has ended in which the only failed test passed when retried: the
\* all-clear line was printed and the exit status is 0.
C8_Witness ==
    /\ RetryPassOver
    /\ nb_test_failed = 1
    /\ \E k \in Ordinals : Returned(k) = <<3, 0>>
    /\ LastLine.kind = "All tests pass after second try."
    /\ ret = 0

\* C9: a test is invoked a second time only in a run with both -n and -r,
\* only if its sweep invocation returned nonzero and its name is not in the
\* blocklist, and then exactly once; without -n or without -r no test is
\* invoked more than once and a test that failed in the sweep stays Failed.
C9_SecondInvocationOnlyOnRetry ==
    \A k \in Ordinals :
        /\ SweepInvocations(k) <= 1
        /\ Retries(k) <= 1
        /\ Retries(k) = 1 =>
              /\ RetryFlagsGiven
              /\ SweepInvocations(k) = 1
              /\ Returned(k)[1] # 0
              /\ Name(k) \notin Blocklist
        /\ ~RetryFlagsGiven =>
              /\ Invocations(k) <= 1
              /\ (Len(Returned(k)) > 0 /\ Returned(k)[1] # 0) =>
                    test_status[k] = test_failed

\* A run with -n and -r has ended in which one test was invoked twice and a
\* test that passed in the sweep was invoked once.
C9_Witness ==
    /\ Done /\ RetryFlagsGiven
    /\ \E k \in Ordinals : Invocations(k) = 2 /\ Retries(k) = 1
    /\ \E j \in Ordinals : Returned(j) = <<0>>

\* C10: after a usage error in argument resolution (an unknown name in a
\* -x group or in the trailing list, a negative bound given to -o, any
\* other usage error) or a failed allocation of the status table, no test
\* is ever invoked and the exit status is nonzero.
C10_UsageErrorRunsNothing ==
    ResolutionFailed =>
        /\ \A n \in 1..Len(out) : out[n].kind # "Starting"
        /\ Done => ret # 0

\* A run has ended in which a -x group named a registered test and then an
\* unknown one.
C10_Witness ==
    /\ Done
    /\ "Incorrect test name" \in err
    /\ x_named # {}
    /\ ~has_list

----------------------------------------------------------------------------
\* The lines of a kind written so far.
LinesOf(kind) == SelectSeq(out, LAMBDA l : l.kind = kind)

\* The entries whose test the sweep called, and those among them whose
\* test returned nonzero there.
SweepInvoked == {k \in Ordinals : SweepInvocations(k) >= 1}
SweepFailed == {k \in SweepInvoked : Returned(k)[1] # 0}

\* The report after the sweep has been written.
ReportOver == pc \in {"retry", "done"}

\* A step taken once the sweep has started leaves an out-of-range NotRun
\* entry NotRun.
OutOfRangeNotRunKept ==
    pc \in {"sweep", "report", "retry"} =>
        \A k \in Ordinals :
            (~(first_test <= k /\ k <= last_test)
                /\ test_status[k] = test_not_run) =>
                    test_status'[k] = test_not_run

\* C11: an entry whose ordinal is outside the -o range and whose status is
\* NotRun when the sweep starts keeps status NotRun: no step of the sweep
\* or after it gives it another status.
C11_OutOfRangeStaysNotRun ==
    [][OutOfRangeNotRunKept]_vars

\* C12: the aggregate line is printed exactly when more than one test was
\* invoked in the sweep, with N the number of tests invoked in the sweep and
\* M the number of those that returned nonzero; entries outside the -o
\* range are not counted in N.
C12_AggregateCountsInvokedTests ==
    ReportOver =>
        /\ (Len(LinesOf("Tried")) = 1) <=> (Cardinality(SweepInvoked) > 1)
        /\ Len(LinesOf("Tried")) <= 1
        /\ \A n \in 1..Len(LinesOf("Tried")) :
              /\ LinesOf("Tried")[n].idx = Cardinality(SweepInvoked)
              /\ LinesOf("Tried")[n].val = Cardinality(SweepFailed)

\* The run had no argument and the four tests of the repository's table
\* all returned 0.
FourTestsAllPass ==
    /\ Done /\ NoArguments /\ resolved
    /\ nb_tests = 4
    /\ \A k \in Ordinals : Returned(k) = <<0>>

\* C13, as stated: in a no-flag run over the four-entry table in which
\* every test returns 0, the exit status is 0, no aggregate line is printed
\* and no failed-test line is printed.
C13_AllPassPrintsNoAggregate ==
    FourTestsAllPass =>
        /\ ret = 0
        /\ LinesOf("Tried") = <<>>
        /\ LinesOf("Failed test(s)") = <<>>

\* C13, amended: in a no-flag run over the four-entry table in which every
\* test returns 0, the exit status is 0, the aggregate line is printed with
\* 4 tests tried and 0 failed, and no failed-test line is printed.
C13_AllPassPrintsAggregate ==
    FourTestsAllPass =>
        /\ ret = 0
        /\ Len(LinesOf("Tried")) = 1
        /\ LinesOf("Tried")[1].idx = 4
        /\ LinesOf("Tried")[1].val = 0
        /\ LinesOf("Failed test(s)") = <<>>

\* The run of four passing tests has ended, its report written.
C13_Witness ==
    /\ FourTestsAllPass
    /\ Len(out) = 9

----------------------------------------------------------------------------
\* The entries whose status is Failed.
FailedSet == {k \in Ordinals : test_status[k] = test_failed}

\* The names of the entries of S, in table order.
NamesInOrder(S) ==
    LET upto[n \in 0..nb_tests] ==
            IF n = 0 THEN <<>>
            ELSE upto[n - 1]
                     \o (IF (n - 1) \in S THEN <<Name(n - 1)>> ELSE <<>>)
    IN upto[nb_tests]

\* The names a list of names holds.
Listed(names) == {names[n] : n \in 1..Len(names)}

\* C14: whenever a test returned nonzero in the sweep, a failed-test line is
\* printed and lists exactly the entries Failed at the end of the sweep;
\* whenever the retry pass ends with an entry still Failed, the
\* still-failing line lists exactly the entries Failed then; no run exits
\* nonzero on a test failure without the last such list naming that test.
C14_EveryFailureIsNamed ==
    /\ (pc = "report" /\ resolved) => FailedSet = SweepFailed
    /\ (ReportOver /\ resolved) =>
          /\ Len(LinesOf("Failed test(s)")) =
                (IF SweepFailed # {} THEN 1 ELSE 0)
          /\ \A n \in 1..Len(LinesOf("Failed test(s)")) :
                LinesOf("Failed test(s)")[n].names = NamesInOrder(SweepFailed)
    /\ (RetryPassOver /\ FailedSet # {}) =>
          /\ LastLine.kind = "Still failing"
          /\ LastLine.names = NamesInOrder(FailedSet)
    /\ (Done /\ resolved /\ ret # 0) =>
          /\ FailedSet # {}
          /\ LastLine.kind \in {"Failed test(s)", "Still failing"}
          /\ \A k \in FailedSet : Name(k) \in Listed(LastLine.names)

\* A retry pass has ended in which one failed test passed and another
\* failed again: the failed-test line named both, the still-failing line
\* names the second.
C14_Witness ==
    /\ RetryPassOver
    /\ \E k \in Ordinals : Returned(k) = <<3, 0>>
    /\ \E k \in Ordinals : Returned(k) = <<3, 3>>
    /\ Len(LastLine.names) = 1

\* The sweep has gone past entry k.
SweepPast(k) == resolved /\ (SweepOver \/ (pc = "sweep" /\ k < i))

\* C15: in the sweep a bypassed notice is printed for an entry exactly when
\* its status is Excluded and no auto-bypass is in effect (no alternate mode
\* and no trailing list); under auto-bypass no notice is printed for any
\* entry, -x or not; no notice is printed for an entry that is invoked.
C15_BypassNoticeOnlyForExplicitExclusion ==
    \A k \in Ordinals :
        /\ Count("Bypassed", k) <= 1
        /\ Count("Bypassed", k) = 1 =>
              /\ test_status[k] = test_excluded
              /\ ~AlternateMode /\ ~has_list
              /\ Invocations(k) = 0
        /\ (SweepPast(k) /\ test_status[k] = test_excluded
                /\ ~AlternateMode /\ ~has_list) =>
              Count("Bypassed", k) = 1

\* A run with a -x group and no auto-bypass has ended: a notice was printed
\* for the excluded entry and another entry was invoked.
C15_Witness ==
    /\ Done /\ resolved /\ ~AlternateMode /\ ~has_list
    /\ \E k \in x_named : Count("Bypassed", k) = 1
    /\ \E j \in Ordinals : Invocations(j) = 1 /\ Count("Bypassed", j) = 0

\* Positions in the output of the lines of some kinds.
Positions(kinds) == {n \in 1..Len(out) : out[n].kind \in kinds}

\* Positions of the "Starting" lines written by the retry pass (each one
\* follows a "Retrying" line) and by the sweep (the others).
RetryStarts ==
    {n \in Positions({"Starting"}) : n > 1 /\ out[n - 1].kind = "Retrying"}
SweepStarts == Positions({"Starting"}) \ RetryStarts

\* C16: selection resolution is over before the first invocation; the sweep
\* invokes in ascending ordinal order; the aggregate and failed-test lines
\* come after the last sweep invocation; every retry invocation comes after
\* every sweep invocation and after the failed-test line, in ascending
\* ordinal order; an invocation has returned before the next one starts.
C16_PhasesInOrder ==
    /\ Positions({"Starting"}) # {} =>
          pc \in {"sweep", "report", "retry", "done"}
    /\ (pc = "sweep") => Positions({"Tried", "Failed test(s)", "Retrying"}) = {}
    /\ \A n \in SweepStarts, m \in SweepStarts :
          n < m => out[n].idx < out[m].idx
    /\ \A n \in RetryStarts, m \in RetryStarts :
          n < m => out[n].idx < out[m].idx
    /\ \A n \in SweepStarts :
          \A m \in Positions({"Tried", "Failed test(s)"}) \cup RetryStarts :
              n < m
    /\ \A m \in RetryStarts :
          \E n \in Positions({"Failed test(s)"}) : n < m
    /\ \A n \in Positions({"Starting"}) :
          /\ n < Len(out)
          /\ out[n + 1].kind \in {"Success", "Fails"}
          /\ out[n + 1].idx = out[n].idx

\* A run has ended with two tests invoked in the sweep, both reported
\* failed, and both invoked again by the retry pass.
C16_Witness ==
    /\ Done
    /\ Cardinality(SweepStarts) >= 2
    /\ Cardinality(RetryStarts) >= 2
    /\ Positions({"Tried"}) # {}

----------------------------------------------------------------------------
\* A step taken once the sweep has started changes the status of an entry
\* only from NotRun to Success or Failed, in the sweep, or from Failed to
\* Success, in the retry pass and on a retry that returned 0.
StatusStepAllowed ==
    pc \in {"sweep", "report", "retry", "done"} =>
        \A k \in Ordinals :
            \/ test_status'[k] = test_status[k]
            \/ /\ pc = "sweep"
               /\ test_status[k] = test_not_run
               /\ test_status'[k] \in {test_success, test_failed}
            \/ /\ pc = "retry"
               /\ test_status[k] = test_failed
               /\ test_status'[k] = test_success
               /\ out'[Len(out')].kind = "Success"
               /\ out'[Len(out')].idx = k

\* C17: once the sweep has started the only status transitions are NotRun
\* to Success, NotRun to Failed (in the sweep) and Failed to Success (in the
\* retry pass, on a retry returning 0): Success never becomes Failed,
\* Excluded never changes, nothing becomes NotRun or Excluded.
C17_OnlyForwardTransitions ==
    [][StatusStepAllowed]_vars

\* A run has ended in which one entry went NotRun, Failed, Success, one
\* went NotRun, Success, and one stayed Excluded.
C17_Witness ==
    /\ Done
    /\ \E k \in Ordinals :
          Returned(k) = <<3, 0>> /\ test_status[k] = test_success
    /\ \E k \in Ordinals :
          Returned(k) = <<0>> /\ test_status[k] = test_success
    /\ \E k \in Ordinals : test_status[k] = test_excluded

\* At the end of the sweep the failed counter is the number of Failed
\* entries and does not exceed the tried counter.
CountersAtEndOfSweep ==
    pc = "report" =>
        /\ nb_test_failed = Cardinality(FailedSet)
        /\ nb_test_failed <= nb_test_tried

\* A step of the report or of the retry pass leaves both counters alone.
CountersKept ==
    pc \in {"report", "retry"} =>
        /\ nb_test_tried' = nb_test_tried
        /\ nb_test_failed' = nb_test_failed

\* C18: the retry pass never changes the tried counter or the failed
\* counter, whatever the retried tests return; at the end of the sweep the
\* failed counter is the number of Failed entries and is at most the tried
\* counter.
C18_RetryKeepsCounters ==
    []CountersAtEndOfSweep /\ [][CountersKept]_vars

\* A retry pass has ended in which the only failure cleared: no entry is
\* Failed, the failed counter is still 1.
C18_Witness ==
    /\ RetryPassOver
    /\ FailedSet = {}
    /\ nb_test_failed = 1
    /\ nb_test_tried >= 2

----------------------------------------------------------------------------
\* C19: the aggregate line words a failure count of 0 the way it words a
\* count of 2 or more, and a count of 1 differently: the wording printed is
\* the one used for two failures exactly when the count is not 1.
C19_ZeroWordedAsSeveral ==
    \A n \in 1..Len(LinesOf("Tried")) :
        (LinesOf("Tried")[n].names[1] = FailSuffix(2))
            <=> (LinesOf("Tried")[n].val # 1)

\* C20: an entry with status Success has been invoked at least once and its
\* most recent invocation returned 0.
C20_SuccessMeansInvokedAndPassed ==
    \A k \in DOMAIN test_status :
        test_status[k] = test_success =>
            /\ Invocations(k) >= 1
            /\ Returned(k)[Len(Returned(k))] = 0

====
